---------------------------- MODULE Spec2Model ----------------------------
(***************************************************************************)
(* A model of amlpp.conveyor.Conveyor (src/amlpp/conveyor/conveyor.py):    *)
(* the ordered list of blocks (stages), the estimator slot, and the        *)
(* operations fit, fit_transform, transform, predict, score, fit_model and *)
(* the generic-estimator search track fit_sklearn_model.                   *)
(*                                                                         *)
(* A feature table is a record [cols, rows]: its column names and its row  *)
(* ids.  A target is a record [enc, rows]: the number of target encodings  *)
(* applied to it and its row ids; the empty target (pd.DataFrame()) has no *)
(* rows.  A block is a column-dropping stage: fit learns which of its      *)
(* candidate columns p occur in the data, transform drops the learned      *)
(* columns st; a block with clone = TRUE returns a fitted copy from fit    *)
(* and leaves itself as it was; a block with tt = TRUE has a               *)
(* target_transform method.                                                *)
(***************************************************************************)
EXTENDS Integers, Sequences, FiniteSets

VARIABLES
    blocks,     \* self.blocks: the sequence of stage objects
    estimator,  \* self.estimator
    pc,         \* position of the control flow inside fit_model ("idle" outside)
    fm,         \* the local variables of the running fit_model call
    artifact,   \* the pipeline last pickled by fit_model
    op,         \* the operation the last step belongs to
    args,       \* the arguments of that operation
    ret,        \* what it returned, or that it raised
    calls,      \* the stage/estimator methods it invoked, in order
    ftOut,      \* input and output of the last completed fit_transform
    track       \* input and result of the last fit_sklearn_model call (SpecTrack)

vars == <<blocks, estimator, pc, fm, artifact, op, args, ret, calls, ftOut, track>>

---------------------------------------------------------------------------
(* Bounds *)

MaxBlocks == 2      \* longest stage list
MaxFits == 1        \* fit invocations per stage / estimator
MaxRows == 3        \* most rows of a training table
NFamilies == 3      \* size of the sklearn_models catalog
MaxNames == 2       \* longest sklearn_function list passed to score
MaxFuncs == 1       \* longest precision_function list passed to score

Cols == {"age", "income"}
ColSets == {{"age", "income"}, {"age"}}
Scores == {-1, 1}             \* values of rating_func on final predictions
BestValues == {-1, 0, 1, 2}   \* values of study.best_value

---------------------------------------------------------------------------
(* Values *)

None == [kind |-> "None"]
Untrained == [cols |-> {}, enc |-> 0]

NewEstimator(k, f) == [kind |-> k, family |-> f, fits |-> 0, trained |-> Untrained]

Table(c, r) == [cols |-> c, rows |-> r]
Target(e, r) == [enc |-> e, rows |-> r]
EmptyTarget == Target(0, {})

Returned(v) == [raised |-> FALSE, exc |-> "", value |-> v]
Raised(e) == [raised |-> TRUE, exc |-> e, value |-> None]

StageConfigs ==
    { [p |-> {"income"}, clone |-> FALSE, tt |-> FALSE],
      [p |-> {"age"},    clone |-> TRUE,  tt |-> TRUE] }

NewBlock(c) == [p |-> c.p, clone |-> c.clone, tt |-> c.tt, st |-> {}, fits |-> 0]

SeqsUpTo(S, n) == UNION { [1..k -> S] : k \in 0..n }

Call(o, m, x, out) == [obj |-> o, m |-> m, X |-> x, out |-> out]

---------------------------------------------------------------------------
(* The stage contract, as the Conveyor uses it *)

\* block.fit(X, Y): the fitted stage that fit returns (line 57)
block_fit(b, X, Y) == [b EXCEPT !.st = b.p \cap X.cols]

\* the object kept in self.blocks after block.fit(X, Y) was invoked on it:
\* fit mutates the stage itself, unless it fits and returns a copy
block_after_fit(b, X, Y) ==
    IF b.clone THEN [b EXCEPT !.fits = @ + 1]
    ELSE [b EXCEPT !.st = b.p \cap X.cols, !.fits = @ + 1]

\* block.transform(X) (line 79)
block_transform(b, X) == [X EXCEPT !.cols = @ \ b.st]

\* block.target_transform(Y) (line 81)
block_target_transform(b, Y) == [Y EXCEPT !.enc = @ + 1]

\* 'target_transform' in dir(block) (line 80)
has_target_transform(b) == b.tt

\* Y.empty (line 80)
IsEmpty(Y) == Y.rows = {}

\* estimator.fit(X, Y) (line 62)
estimator_fit(e, X, Y) ==
    [e EXCEPT !.fits = @ + 1,
              !.trained = [cols |-> X.cols, enc |-> Y.enc]]

\* estimator.predict(X) (lines 86, 102): one prediction per row
estimator_predict(e, X) == [by |-> e.kind, cols |-> X.cols, rows |-> X.rows]

---------------------------------------------------------------------------
(* Conveyor._transform, lines 75-82 *)

transform_block(block, X, Y) ==
    LET X1 == block_transform(block, X)
        tt == ~IsEmpty(Y) /\ has_target_transform(block)
        Y1 == IF tt THEN block_target_transform(block, Y) ELSE Y
    IN  [X |-> X1, Y |-> Y1, tt |-> tt]

\* the method invocations one _transform makes on block i
transform_calls(i, X, r) ==
    <<Call(i, "transform", X.cols, r.X.cols)>>
    \o (IF r.tt THEN <<Call(i, "target_transform", {}, {})>> ELSE <<>>)

(* The loop of fit_transform with fit and transform decoupled: every stage *)
(* is fitted on the data as it was given to fit_transform, and the stages  *)
(* are applied to it afterwards.                                           *)
RECURSIVE fit_loop_decoupled(_, _, _, _, _, _)
fit_loop_decoupled(bs, i, X, Y, failAt, cs) ==
    IF i > Len(bs)
    THEN LET t == [k \in 1..Len(bs) |-> block_fit(bs[k], X, Y)]
             RECURSIVE apply(_, _, _, _)
             apply(k, X1, Y1, c1) ==
                 IF k > Len(bs)
                 THEN [raised |-> FALSE, blocks |-> bs, X |-> X1, Y |-> Y1, calls |-> c1]
                 ELSE LET r == transform_block(t[k], X1, Y1)
                      IN  apply(k + 1, r.X, r.Y, c1 \o transform_calls(k, X1, r))
         IN  apply(1, X, Y, cs)
    ELSE IF i = failAt
    THEN [raised |-> TRUE, blocks |-> bs, X |-> X, Y |-> Y, calls |-> cs]
    ELSE fit_loop_decoupled([bs EXCEPT ![i] = block_after_fit(bs[i], X, Y)], i + 1,
                            X, Y, failAt, cs \o <<Call(i, "fit", X.cols, X.cols)>>)

(* The loop of Conveyor.fit_transform, lines 55-58.  failAt is the index   *)
(* of the stage whose fit raises (0: none does); the stages before it have *)
(* been fitted when the exception leaves the loop.                         *)
RECURSIVE fit_loop(_, _, _, _, _, _)
fit_loop(bs, i, X, Y, failAt, cs) ==
    IF i > Len(bs)
    THEN [raised |-> FALSE, blocks |-> bs, X |-> X, Y |-> Y, calls |-> cs]
    ELSE IF i = failAt
    THEN [raised |-> TRUE, blocks |-> bs, X |-> X, Y |-> Y, calls |-> cs]
    ELSE LET fitted == block_fit(bs[i], X, Y)
             r == transform_block(fitted, X, Y)
         IN  fit_loop([bs EXCEPT ![i] = block_after_fit(bs[i], X, Y)], i + 1,
                      r.X, r.Y, failAt,
                      cs \o <<Call(i, "fit", X.cols, X.cols)>>
                         \o transform_calls(i, X, r))

(* Conveyor.fit_transform, lines 51-64: the loop, then the estimator's fit *)
(* when estimator = True.  The result holds the new stage list, the new    *)
(* estimator, the returned (X_, Y_) and the invocations made.              *)
fit_transform_run(bs, est, X, Y, withEstimator, failAt) ==
    LET r == fit_loop(bs, 1, X, Y, failAt, <<>>)
    IN  IF r.raised
        THEN [ret |-> Raised("StageFailure"), blocks |-> r.blocks,
              estimator |-> est, calls |-> r.calls, loopDone |-> FALSE]
        ELSE IF ~withEstimator
        THEN [ret |-> Returned([X |-> r.X, Y |-> r.Y]), blocks |-> r.blocks,
              estimator |-> est, calls |-> r.calls, loopDone |-> TRUE]
        ELSE IF est.kind = "None"
        THEN [ret |-> Raised("AttributeError"), blocks |-> r.blocks,
              estimator |-> est, calls |-> r.calls, loopDone |-> TRUE]
        ELSE [ret |-> Returned([X |-> r.X, Y |-> r.Y]), blocks |-> r.blocks,
              estimator |-> estimator_fit(est, r.X, r.Y),
              calls |-> r.calls \o <<Call(0, "fit", r.X.cols, r.X.cols)>>,
              loopDone |-> TRUE]

(* The loop of transform written as that of fit_transform: every stage is *)
(* fitted again on the data it is about to transform                       *)
RECURSIVE transform_loop_refit(_, _, _, _, _, _)
transform_loop_refit(bs, i, X, Y, failAt, cs) ==
    IF i > Len(bs)
    THEN [raised |-> FALSE, X |-> X, Y |-> Y, calls |-> cs]
    ELSE IF i = failAt
    THEN [raised |-> TRUE, X |-> X, Y |-> Y, calls |-> cs]
    ELSE LET r == transform_block(block_fit(bs[i], X, Y), X, Y)
         IN  transform_loop_refit(bs, i + 1, r.X, r.Y, failAt,
                                  cs \o <<Call(i, "fit", X.cols, X.cols)>>
                                     \o transform_calls(i, X, r))

(* The loop of Conveyor.transform, lines 71-72, over the stored blocks *)
RECURSIVE transform_loop(_, _, _, _, _, _)
transform_loop(bs, i, X, Y, failAt, cs) ==
    IF i > Len(bs)
    THEN [raised |-> FALSE, X |-> X, Y |-> Y, calls |-> cs]
    ELSE IF i = failAt
    THEN [raised |-> TRUE, X |-> X, Y |-> Y, calls |-> cs]
    ELSE LET r == transform_block(bs[i], X, Y)
         IN  transform_loop(bs, i + 1, r.X, r.Y, failAt,
                            cs \o transform_calls(i, X, r))

(* Conveyor.transform, lines 67-73 *)
transform_run(bs, X, Y, failAt) ==
    LET r == transform_loop(bs, 1, X, Y, failAt, <<>>)
    IN  IF r.raised
        THEN [ret |-> Raised("StageFailure"), calls |-> r.calls]
        ELSE [ret |-> Returned([X |-> r.X, Y |-> r.Y]), calls |-> r.calls]

(* Conveyor.predict, line 86 *)
predict_run(bs, est, X, failAt) ==
    LET t == transform_run(bs, X, EmptyTarget, failAt)
    IN  IF t.ret.raised THEN t
        ELSE IF est.kind = "None"
        THEN [ret |-> Raised("AttributeError"), calls |-> t.calls]
        ELSE [ret |-> Returned(estimator_predict(est, t.ret.value.X)),
              calls |-> t.calls
                  \o <<Call(0, "predict", t.ret.value.X.cols, t.ret.value.X.cols)>>]

---------------------------------------------------------------------------
(* Conveyor.score and Conveyor._get_score, lines 89-119 *)

\* the metric functions imported at line 1: the names eval() resolves
Metrics == {"r2_score", "roc_auc_score", "accuracy_score", "explained_variance_score"}

\* names a caller may pass in sklearn_function: two of the imported metrics
\* and a name that resolves to nothing
MetricNames == {"r2_score", "roc_auc_score", "no_such_metric"}

\* functions a caller may pass in precision_function
MetricFuncs == {"my_metric"}

\* _get_score, lines 115-119: one line of the report; bad holds the metrics
\* whose evaluation func(y, result) raises on this data
get_score(func, bad) ==
    IF func \in bad
    THEN [name |-> func, body |-> "ERROR: message"]
    ELSE [name |-> func, body |-> "value"]

\* lines 105-106 with a _get_score that has no try/except: the exception of
\* a metric leaves score
RECURSIVE names_loop_unguarded(_, _, _, _)
names_loop_unguarded(names, i, bad, report) ==
    IF i > Len(names) THEN [raised |-> FALSE, report |-> report]
    ELSE IF names[i] \notin Metrics \/ names[i] \in bad
    THEN [raised |-> TRUE, report |-> report]
    ELSE names_loop_unguarded(names, i + 1, bad,
                              Append(report, get_score(names[i], bad)))

\* lines 105-106: eval(func) raises NameError for a name that is not defined
RECURSIVE names_loop(_, _, _, _)
names_loop(names, i, bad, report) ==
    IF i > Len(names) THEN [raised |-> FALSE, report |-> report]
    ELSE IF names[i] \notin Metrics THEN [raised |-> TRUE, report |-> report]
    ELSE names_loop(names, i + 1, bad, Append(report, get_score(names[i], bad)))

\* lines 107-108
RECURSIVE funcs_loop(_, _, _, _)
funcs_loop(funcs, i, bad, report) ==
    IF i > Len(funcs) THEN report
    ELSE funcs_loop(funcs, i + 1, bad, Append(report, get_score(funcs[i], bad)))

score_run(bs, est, X, Y, names, funcs, bad, failAt) ==
    LET t == transform_run(bs, X, Y, failAt)
    IN  IF t.ret.raised THEN t
        ELSE IF est.kind = "None"
        THEN [ret |-> Raised("AttributeError"), calls |-> t.calls]
        ELSE LET result == estimator_predict(est, t.ret.value.X)
                 cs == t.calls \o <<Call(0, "predict", t.ret.value.X.cols,
                                         t.ret.value.X.cols)>>
                 n == names_loop(names, 1, bad, <<>>)
             IN  IF n.raised
                 THEN [ret |-> Raised("NameError"), calls |-> cs]
                 ELSE [ret |-> Returned([score |-> funcs_loop(funcs, 1, bad, n.report),
                                         result |-> result,
                                         Y |-> t.ret.value.Y]),
                       calls |-> cs]

---------------------------------------------------------------------------
(* The search tracks, lines 198-243 *)

\* the outcome of one family's study: it raised, or it has a best value
Failed == [ok |-> FALSE, value |-> 0]
Found(v) == [ok |-> TRUE, value |-> v]
Outcomes == {Failed} \cup {Found(v) : v \in BestValues}

\* line 202: best_model = {"model": object, "params": {}, "best_value": 0};
\* model 0 is the placeholder class object, searched the families whose
\* study.optimize was started
Placeholder == [model |-> 0, params |-> 0, best_value |-> 0, searched |-> {}]

\* lines 204-216: the for loop over sklearn_models inside one try; an
\* exception of any study leaves the loop
RECURSIVE search_loop(_, _, _)
search_loop(outs, i, best) ==
    IF i > Len(outs) THEN best
    ELSE LET b == [best EXCEPT !.searched = @ \cup {i}]
         IN  IF ~outs[i].ok THEN b
             ELSE search_loop(outs, i + 1,
                      IF outs[i].value > b.best_value
                      THEN [model |-> i, params |-> i,
                            best_value |-> outs[i].value, searched |-> b.searched]
                      ELSE b)

\* lines 198-221: the loop, then the refit of best_model on (X, Y):
\* object().fit raises AttributeError
fit_sklearn_model(X, Y, outs) ==
    LET best == search_loop(outs, 1, Placeholder)
    IN  IF best.model = 0
        THEN [ret |-> Raised("AttributeError"), best |-> best]
        ELSE [ret |-> Returned(estimator_fit(NewEstimator("sklearn", best.model), X, Y)),
              best |-> best]

\* lines 223-243: the study raises, or the best parameters are refitted on (X, Y)
fit_lgbm_model(X, Y, out) ==
    IF ~out.ok THEN Raised("StudyError")
    ELSE Returned(estimator_fit(NewEstimator("LGBMRegressor", 0), X, Y))

\* sklearn's train_test_split(X, Y, test_size = 0.1): ceil(0.1 * n) test rows
TestSize(n) == (n + 9) \div 10

\* the four values train_test_split returns, for the test rows T
train_test_split(X, Y, T) ==
    << [X EXCEPT !.rows = @ \ T], [X EXCEPT !.rows = T],
       [Y EXCEPT !.rows = @ \ T], [Y EXCEPT !.rows = T] >>

\* line 179 with the four names train_test_split is usually unpacked into:
\* the training data becomes what is left after the split
split_assign_disjoint(X_train, Y_train, T) ==
    LET r == train_test_split(X_train, Y_train, T)
    IN  [X_train |-> r[1], Y_train |-> r[3], X_test |-> r[2], Y_test |-> r[4]]

\* line 179: X_test, X_test, Y_test, Y_test = train_test_split(...);
\* each name keeps the last value assigned to it, X_train and Y_train none
split_assign(X_train, Y_train, T) ==
    LET r == train_test_split(X_train, Y_train, T)
    IN  [X_train |-> X_train, Y_train |-> Y_train, X_test |-> r[2], Y_test |-> r[4]]

\* line 192 with >= for >: a tie goes to the generic-estimator track
champion_tie(lgb_model, lgb_score, tpot_model, tpot_score) ==
    IF tpot_score >= lgb_score THEN tpot_model ELSE lgb_model

\* line 192
champion(lgb_model, lgb_score, tpot_model, tpot_score) ==
    IF tpot_score > lgb_score THEN tpot_model ELSE lgb_model

---------------------------------------------------------------------------
(* Inputs *)

\* tables passed to fit, fit_transform, transform, predict and score
Tables == { Table(c, 1..MaxRows) : c \in ColSets }

\* training tables passed to fit_model
TrainTables == { Table(Cols, 1..n) : n \in 1..MaxRows }
TargetOf(X) == Target(0, X.rows)

\* validation data a caller may pass to fit_model: one row that is no training row
ValidTables == { Table(c, {0}) : c \in ColSets }

NoArgs == [X |-> Table({}, {}), Y |-> EmptyTarget]
NoFT == [done |-> FALSE, X |-> Table({}, {}), Y |-> EmptyTarget,
         outX |-> Table({}, {}), outY |-> EmptyTarget]
NoFrame == [active |-> FALSE]
NoTrack == [outs |-> <<>>, res |-> [ret |-> Raised(""), best |-> [model |-> 0]]]

\* what the last completed fit_transform was given and returned
FTRecord(X, Y, r) ==
    IF r.ret.raised THEN NoFT
    ELSE [done |-> TRUE, X |-> X, Y |-> Y, outX |-> r.ret.value.X, outY |-> r.ret.value.Y]

CanFitBlocks == \A i \in 1..Len(blocks) : blocks[i].fits < MaxFits
CanFitEstimator == IF estimator.kind = "None" THEN TRUE ELSE estimator.fits < MaxFits

---------------------------------------------------------------------------
(* Init: the state after the constructor __init__, lines 34-37 *)

Init ==
    /\ blocks \in { [i \in 1..Len(cs) |-> NewBlock(cs[i])] :
                        cs \in SeqsUpTo(StageConfigs, MaxBlocks) }
    /\ estimator \in {None, NewEstimator("user", 0)}
    /\ pc = "idle"
    /\ fm = NoFrame
    /\ artifact = None
    /\ op = "init"
    /\ args = NoArgs
    /\ ret = Returned(None)
    /\ calls = <<>>
    /\ ftOut = NoFT
    /\ track = NoTrack

---------------------------------------------------------------------------
(* The operations outside fit_model *)

\* Conveyor.fit, lines 48-49
fit(X, Y, failAt) ==
    /\ pc = "idle"
    /\ CanFitBlocks /\ CanFitEstimator
    /\ LET r == fit_transform_run(blocks, estimator, X, Y, TRUE, failAt)
       IN  /\ blocks' = r.blocks
           /\ estimator' = r.estimator
           /\ ret' = IF r.ret.raised THEN r.ret ELSE Returned(None)
           /\ calls' = r.calls
           /\ ftOut' = FTRecord(X, Y, r)
    /\ op' = "fit"
    /\ args' = [X |-> X, Y |-> Y]
    /\ UNCHANGED <<pc, fm, artifact, track>>

\* Conveyor.fit_transform called by a user, lines 51-64
fit_transform(X, Y, withEstimator, failAt) ==
    /\ pc = "idle"
    /\ CanFitBlocks
    /\ withEstimator => CanFitEstimator
    /\ LET r == fit_transform_run(blocks, estimator, X, Y, withEstimator, failAt)
       IN  /\ blocks' = r.blocks
           /\ estimator' = r.estimator
           /\ ret' = r.ret
           /\ calls' = r.calls
           /\ ftOut' = FTRecord(X, Y, r)
    /\ op' = "fit_transform"
    /\ args' = [X |-> X, Y |-> Y]
    /\ UNCHANGED <<pc, fm, artifact, track>>

\* Conveyor.transform, lines 67-73
transform(X, Y, failAt) ==
    /\ pc = "idle"
    /\ LET r == transform_run(blocks, X, Y, failAt)
       IN  /\ ret' = r.ret
           /\ calls' = r.calls
    /\ op' = "transform"
    /\ args' = [X |-> X, Y |-> Y]
    /\ UNCHANGED <<blocks, estimator, pc, fm, artifact, ftOut, track>>

\* Conveyor.predict, lines 85-86
predict(X, failAt) ==
    /\ pc = "idle"
    /\ LET r == predict_run(blocks, estimator, X, failAt)
       IN  /\ ret' = r.ret
           /\ calls' = r.calls
    /\ op' = "predict"
    /\ args' = [X |-> X, Y |-> EmptyTarget]
    /\ UNCHANGED <<blocks, estimator, pc, fm, artifact, ftOut, track>>

\* Conveyor.score, lines 89-113; ret holds the report, the predictions and
\* the transformed target, which score prints or (with _return) returns
score(X, Y, names, funcs, bad, failAt) ==
    /\ pc = "idle"
    /\ LET r == score_run(blocks, estimator, X, Y, names, funcs, bad, failAt)
       IN  /\ ret' = r.ret
           /\ calls' = r.calls
    /\ op' = "score"
    /\ args' = [X |-> X, Y |-> Y, names |-> names, funcs |-> funcs, bad |-> bad]
    /\ UNCHANGED <<blocks, estimator, pc, fm, artifact, ftOut, track>>

---------------------------------------------------------------------------
(* Conveyor.fit_model, lines 168-196, one action per statement group.  fm  *)
(* holds the locals of the call; est0 and art0 are the estimator slot and  *)
(* the artifact at the time of the call, writes counts the assignments to  *)
(* self.estimator made by the call.                                        *)

NoModel == NewEstimator("none", 0)
NoData == [X |-> Table({}, {}), Y |-> EmptyTarget,
           X_test |-> Table({}, {}), Y_test |-> EmptyTarget]

Frame(given, d) ==
    [active |-> TRUE, est0 |-> estimator, art0 |-> artifact, given |-> given,
     X_train |-> d.X_train, Y_train |-> d.Y_train,
     X_test |-> d.X_test, Y_test |-> d.Y_test,
     lgbArgs |-> NoData, lgb_model |-> NoModel, lgb_score |-> 0,
     tpotArgs |-> NoData, tpot_model |-> NoModel, tpot_score |-> 0,
     writes |-> 0]

\* the arguments of the call at lines 181-184
lgb_args(f) == [X |-> f.X_train, Y |-> f.Y_train, X_test |-> f.X_test, Y_test |-> f.Y_test]

\* the arguments of the call at line 189
tpot_args(f) == [X |-> f.X_train, Y |-> f.Y_train, X_test |-> f.X_test, Y_test |-> f.Y_test]

\* pickle.dump before line 192 has run: the artifact holds the estimator of
\* before the call
pickle_dump_early(bs, est) == [kind |-> "Conveyor", blocks |-> bs, estimator |-> fm.est0]

\* pickle.dump(self, save_file), line 196
pickle_dump(bs, est) == [kind |-> "Conveyor", blocks |-> bs, estimator |-> est]

\* the exception leaves fit_model
fit_model_raise(e) ==
    /\ ret' = Raised(e)
    /\ pc' = "idle"
    /\ fm' = NoFrame

\* the test rows train_test_split may pick: ceil(0.1 * n) of the n rows
\* (which ones depends on the shuffle seeded by random_state = 42)
Splits(rows) == { T \in SUBSET rows : Cardinality(T) = TestSize(Cardinality(rows)) }

\* lines 173-179: rating_func is resolved, the stages are fitted, the
\* validation data is transformed or split off
fit_model_begin(X, Y, hasX, hasY, rating, failAt) ==
    /\ pc = "idle"
    /\ CanFitBlocks
    /\ op' = "fit_model"
    /\ args' = [X |-> X, Y |-> Y]
    /\ UNCHANGED <<estimator, artifact, track>>
    /\ IF rating \notin Metrics
       THEN /\ fit_model_raise("NameError")
            /\ calls' = <<>>
            /\ UNCHANGED <<blocks, ftOut>>
       ELSE LET ft == fit_transform_run(blocks, estimator, X, Y, FALSE, failAt)
                v == ft.ret.value
            IN  /\ blocks' = ft.blocks
                /\ ftOut' = FTRecord(X, Y, ft)
                /\ IF ft.ret.raised
                   THEN /\ fit_model_raise(ft.ret.exc)
                        /\ calls' = ft.calls
                   ELSE IF hasX /\ hasY
                   THEN \E Xv \in ValidTables, vFailAt \in 0..Len(blocks) :
                        LET tv == transform_run(ft.blocks, Xv, TargetOf(Xv), vFailAt)
                        IN  /\ calls' = ft.calls \o tv.calls
                            /\ IF tv.ret.raised
                               THEN fit_model_raise(tv.ret.exc)
                               ELSE /\ fm' = Frame(TRUE,
                                               [X_train |-> v.X, Y_train |-> v.Y,
                                                X_test |-> tv.ret.value.X,
                                                Y_test |-> tv.ret.value.Y])
                                    /\ pc' = "lgb"
                                    /\ ret' = Returned(None)
                   ELSE /\ calls' = ft.calls
                        /\ IF Cardinality(v.X.rows) - TestSize(Cardinality(v.X.rows)) <= 0
                           THEN fit_model_raise("ValueError")
                           ELSE \E T \in Splits(v.X.rows) :
                                /\ fm' = Frame(FALSE, split_assign(v.X, v.Y, T))
                                /\ pc' = "lgb"
                                /\ ret' = Returned(None)

\* lines 181-185: the tree-ensemble track and its score
fit_model_lgb(out, s) ==
    /\ pc = "lgb"
    /\ LET a == lgb_args(fm)
           r == fit_lgbm_model(a.X, a.Y, out)
       IN  IF r.raised
           THEN fit_model_raise(r.exc)
           ELSE /\ fm' = [fm EXCEPT !.lgbArgs = a, !.lgb_model = r.value, !.lgb_score = s]
                /\ pc' = "tpot"
                /\ ret' = Returned(None)
    /\ UNCHANGED <<blocks, estimator, artifact, op, args, calls, ftOut, track>>

\* lines 189-190: the generic-estimator track and its score
fit_model_tpot(r, s) ==
    /\ pc = "tpot"
    /\ LET a == tpot_args(fm)
       IN  IF r.ret.raised
           THEN fit_model_raise(r.ret.exc)
           ELSE /\ fm' = [fm EXCEPT !.tpotArgs = a, !.tpot_model = r.ret.value,
                                    !.tpot_score = s]
                /\ pc' = "select"
                /\ ret' = Returned(None)
    /\ UNCHANGED <<blocks, estimator, artifact, op, args, calls, ftOut, track>>

\* lines 192-193: the champion is stored in the estimator slot
fit_model_select ==
    /\ pc = "select"
    /\ estimator' = champion(fm.lgb_model, fm.lgb_score, fm.tpot_model, fm.tpot_score)
    /\ fm' = [fm EXCEPT !.writes = @ + 1]
    /\ pc' = "save"
    /\ UNCHANGED <<blocks, artifact, op, args, ret, calls, ftOut, track>>

\* lines 195-196: the pipeline is pickled; open() may fail.  fit_model
\* returns nothing: ret keeps the models and scores the call compared
fit_model_save(ioFails) ==
    /\ pc = "save"
    /\ IF ioFails
       THEN /\ ret' = Raised("OSError")
            /\ UNCHANGED artifact
       ELSE /\ ret' = Returned([lgb_model |-> fm.lgb_model, lgb_score |-> fm.lgb_score,
                                 tpot_model |-> fm.tpot_model,
                                 tpot_score |-> fm.tpot_score])
            /\ artifact' = pickle_dump(blocks, estimator)
    /\ pc' = "idle"
    /\ fm' = NoFrame
    /\ UNCHANGED <<blocks, estimator, op, args, calls, ftOut, track>>

---------------------------------------------------------------------------
(* The specification of the Conveyor *)

DefaultNames == <<"r2_score", "roc_auc_score", "accuracy_score", "explained_variance_score">>

Next ==
    \/ \E X \in Tables, failAt \in 0..Len(blocks) :
          fit(X, TargetOf(X), failAt)
    \/ \E X \in Tables, e \in BOOLEAN, failAt \in 0..Len(blocks) :
          fit_transform(X, TargetOf(X), e, failAt)
    \/ \E X \in Tables, withY \in BOOLEAN, failAt \in 0..Len(blocks) :
          transform(X, IF withY THEN TargetOf(X) ELSE EmptyTarget, failAt)
    \/ \E X \in Tables, failAt \in 0..Len(blocks) :
          predict(X, failAt)
    \/ \E X \in Tables, bad \in {{}, {"roc_auc_score", "accuracy_score"}} :
          score(X, TargetOf(X), DefaultNames, <<>>, bad, 0)

Spec == Init /\ [][Next]_vars

---------------------------------------------------------------------------
(* The specification of fit_model *)

NextModel ==
    \/ \E X \in TrainTables, has \in {<<TRUE, TRUE>>, <<TRUE, FALSE>>, <<FALSE, FALSE>>},
          failAt \in 0..Len(blocks) :
          fit_model_begin(X, TargetOf(X), has[1], has[2], "r2_score", failAt)
    \/ \E X \in TrainTables :
          fit_model_begin(X, TargetOf(X), FALSE, FALSE, "no_such_metric", 0)
    \/ \E out \in {Failed, Found(1)}, s \in Scores : fit_model_lgb(out, s)
    \/ /\ pc = "tpot"
       /\ \E r \in { fit_sklearn_model(tpot_args(fm).X, tpot_args(fm).Y, outs) :
                         outs \in [1..NFamilies -> {Failed, Found(1)}] },
             s \in Scores :
             fit_model_tpot(r, s)
    \/ fit_model_select
    \/ \E ioFails \in BOOLEAN : fit_model_save(ioFails)

SpecModel == Init /\ [][NextModel]_vars


---------------------------------------------------------------------------
(* The specification of score: every request a caller may make of a newly *)
(* constructed Conveyor.  score changes nothing of the Conveyor, so a     *)
(* second call meets the state the first one met.                         *)

Range(f) == { f[k] : k \in 1..Len(f) }

NextScore ==
    /\ op = "init"
    /\ \E X \in Tables, names \in SeqsUpTo(MetricNames, MaxNames),
          funcs \in SeqsUpTo(MetricFuncs, MaxFuncs), failAt \in 0..Len(blocks) :
          \E bad \in SUBSET ((Range(names) \cap Metrics) \cup Range(funcs)) :
             score(X, TargetOf(X), names, funcs, bad, failAt)

SpecScore == Init /\ [][NextScore]_vars

---------------------------------------------------------------------------
(* The specification of the generic-estimator track: fit_sklearn_model    *)
(* applied to every outcome of the studies of the catalog; a call neither  *)
(* reads nor writes the Conveyor                                           *)

InitTrack == Init /\ blocks = <<>> /\ estimator = None

track_call(X, Y, outs) ==
    /\ track' = [outs |-> outs, res |-> fit_sklearn_model(X, Y, outs)]
    /\ op' = "fit_sklearn_model"
    /\ args' = [X |-> X, Y |-> Y]
    /\ UNCHANGED <<blocks, estimator, pc, fm, artifact, ret, calls, ftOut>>

NextTrack ==
    /\ op = "init"
    /\ \E X \in Tables, outs \in [1..NFamilies -> Outcomes] :
          track_call(X, TargetOf(X), outs)

SpecTrack == InitTrack /\ [][NextTrack]_vars


---------------------------------------------------------------------------
(* Properties of the generic-estimator track (SpecTrack) *)

TrackCalled == op = "fit_sklearn_model"
Fams == 1..Len(track.outs)
OkFams == { i \in Fams : track.outs[i].ok }
\* the families whose best value is the greatest among those that did not fail
BestFams == { i \in OkFams : \A j \in OkFams : track.outs[j].value <= track.outs[i].value }
Earliest(S) == CHOOSE i \in S : \A j \in S : i <= j

\* C3: when every family of the catalog fails, fit_sklearn_model does not
\* raise: it returns a model (and its predictions) to its caller.
C3_NeverRaises ==
    (TrackCalled /\ OkFams = {}) => ~track.res.ret.raised

\* C4: when the study of a family raises, only that family is skipped: the
\* families after it are still searched, and the refit uses the best result
\* among the families that did not fail (here: whose best values are all
\* positive, so that the starting value 0 of best_model plays no part).
C4_OnlyFailedFamilySkipped ==
    (TrackCalled /\ OkFams # Fams /\ \A i \in OkFams : track.outs[i].value > 0)
    => /\ track.res.best.searched = Fams
       /\ OkFams # {} => /\ ~track.res.ret.raised
                         /\ track.res.best.model = Earliest(BestFams)

\* C8: when no family fails, the refit uses the family (and its parameters)
\* whose best value is the maximum over the catalog, the earliest one on a
\* tie, whatever the sign of the values.
C8_BestOfCatalog ==
    (TrackCalled /\ OkFams = Fams)
    => /\ ~track.res.ret.raised
       /\ track.res.best.model = Earliest(BestFams)
       /\ track.res.best.params = Earliest(BestFams)


---------------------------------------------------------------------------
(* Properties of fit_model (SpecModel) *)

\* fit_model has returned normally: ret holds the models and scores compared
FitModelReturned == op = "fit_model" /\ pc = "idle" /\ ~ret.raised

\* C1: after fit_model returns, the estimator is the generic-estimator
\* track's model if and only if tpot_score > lgb_score, and the
\* tree-ensemble track's model otherwise (lower score or tie).
C1_ChampionSelection ==
    FitModelReturned
    => /\ (estimator = ret.value.tpot_model) <=> (ret.value.tpot_score > ret.value.lgb_score)
       /\ ~(ret.value.tpot_score > ret.value.lgb_score) => estimator = ret.value.lgb_model

\* a tie: fit_model has returned and the tree-ensemble model is the estimator
C1_Witness ==
    /\ FitModelReturned
    /\ ret.value.tpot_score = ret.value.lgb_score
    /\ estimator = ret.value.lgb_model
    /\ estimator.kind = "LGBMRegressor"

\* C9: within one fit_model call the estimator slot is written once, after
\* both tracks have returned and both scores are computed (until then it
\* keeps the value of before the call); the artifact is written after that
\* write and holds the champion; when a stage or a track raises, the slot
\* keeps the value of before the call and no artifact is written.
C9_EstimatorWrittenOnce ==
    /\ [](pc \in {"lgb", "tpot", "select"}
            => fm.writes = 0 /\ estimator = fm.est0 /\ artifact = fm.art0)
    /\ [](pc = "save" => fm.writes = 1 /\ artifact = fm.art0)
    /\ [][estimator' # estimator
            => /\ pc = "select"
               /\ fm.lgb_model.kind = "LGBMRegressor"
               /\ fm.tpot_model.kind = "sklearn"
               /\ estimator' \in {fm.lgb_model, fm.tpot_model}]_vars
    /\ [][artifact' # artifact
            => /\ pc = "save" /\ fm.writes = 1
               /\ artifact'.estimator = estimator
               /\ estimator \in {fm.lgb_model, fm.tpot_model}
               /\ artifact'.blocks = blocks]_vars
    /\ [][(op' = "fit_model" /\ pc' = "idle" /\ ret'.raised /\ pc # "save")
            => /\ estimator' = estimator /\ artifact' = artifact
               /\ pc # "idle" => (estimator = fm.est0 /\ artifact = fm.art0)]_vars

\* a track has raised in a call made with an estimator present: the slot is untouched
C9_Witness ==
    /\ op = "fit_model" /\ pc = "idle" /\ ret.raised
    /\ ret.exc \in {"StudyError", "AttributeError"}
    /\ estimator.kind = "user"
    /\ artifact = None
    /\ Len(blocks) = MaxBlocks

\* C10: both tracks receive the same training and validation data; when the
\* caller gives no validation data, the validation set is ceil(10%) of the
\* rows of the transformed training data and the training set of both
\* tracks is still all of it, so every validation row is a training row.
C10_SameDataOverlappingSplit ==
    pc \in {"select", "save"}
    => /\ fm.lgbArgs = fm.tpotArgs
       /\ ~fm.given
          => /\ fm.lgbArgs.X = ftOut.outX /\ fm.lgbArgs.Y = ftOut.outY
             /\ fm.lgbArgs.X.rows = args.X.rows
             /\ fm.lgbArgs.X_test.rows \subseteq fm.lgbArgs.X.rows
             /\ fm.lgbArgs.X_test.rows # {}
             /\ Cardinality(fm.lgbArgs.X_test.rows)
                    = TestSize(Cardinality(fm.lgbArgs.X.rows))
             /\ fm.lgbArgs.X_test.cols = fm.lgbArgs.X.cols
             /\ fm.lgbArgs.Y_test.rows = fm.lgbArgs.X_test.rows
             /\ fm.lgbArgs.Y_test.enc = fm.lgbArgs.Y.enc

\* no validation data given: both tracks ran on all MaxRows training rows
\* and one of these rows is the validation set
C10_Witness ==
    /\ pc = "save"
    /\ ~fm.given
    /\ Cardinality(fm.tpotArgs.X.rows) = MaxRows
    /\ Cardinality(fm.tpotArgs.X_test.rows) = 1
    /\ Len(blocks) > 0


---------------------------------------------------------------------------
(* Properties of fit, fit_transform, transform, predict and score (Spec) *)

\* C2: transform(X, Y) called after fit_transform(X, Y), with the same
\* stage list and the same input, returns what fit_transform returned,
\* also for a stage whose fit returns a fitted copy of itself.
C2_TransformRepeatsFitTransform ==
    (op = "transform" /\ ~ret.raised /\ ftOut.done
        /\ args.X = ftOut.X /\ args.Y = ftOut.Y)
    => (ret.value.X = ftOut.outX /\ ret.value.Y = ftOut.outY)

FitCounts == [i \in 1..Len(blocks) |-> blocks[i].fits]
EstimatorFits == IF estimator.kind = "None" THEN 0 ELSE estimator.fits
ReadOnlyOps == {"predict", "transform", "score"}

\* C6: predict, transform and score invoke fit on no stage and not on the
\* estimator: the fit counts stay what they were, and the only methods
\* invoked are transform and target_transform of the stages and predict of
\* the estimator.
C6_NoRefit ==
    [][op' \in ReadOnlyOps
         => /\ FitCounts' = FitCounts
            /\ EstimatorFits' = EstimatorFits
            /\ \A k \in 1..Len(calls') :
                  \/ calls'[k].obj > 0 /\ calls'[k].m \in {"transform", "target_transform"}
                  \/ calls'[k].obj = 0 /\ calls'[k].m = "predict"]_vars

\* fit has completed on a two-stage pipeline, and predict has then returned
C6_Witness ==
    /\ op = "predict" /\ ~ret.raised
    /\ Len(blocks) = 2
    /\ \A i \in 1..Len(blocks) : blocks[i].fits = 1
    /\ estimator.fits = 1
    /\ Len(calls) = 3

StageFits == { k \in 1..Len(calls) : calls[k].m = "fit" /\ calls[k].obj > 0 }
StageTransforms == { k \in 1..Len(calls) : calls[k].m = "transform" }
EstimatorFitCalls == { k \in 1..Len(calls) : calls[k].m = "fit" /\ calls[k].obj = 0 }
\* the columns that leave the last stage (those given, when there is no stage)
LastOut ==
    IF Len(blocks) = 0 THEN args.X.cols
    ELSE LET t == CHOOSE k \in StageTransforms : calls[k].obj = Len(blocks)
         IN  calls[t].out

\* C7: fit_transform fits the stages in construction order, each on the
\* output of the transforms of the stages before it; the transform of a
\* stage is applied to the data the stage was fitted on before the next
\* stage is fitted; the estimator is fitted on the output of the last
\* stage; a column dropped by a stage is seen by no later stage and not by
\* the estimator.
C7_FitTransformCoupled ==
    (op \in {"fit", "fit_transform"} /\ ~ret.raised)
    => /\ \A i \in 1..Len(blocks) :
             Cardinality({ k \in StageFits : calls[k].obj = i }) = 1
       /\ \A k1, k2 \in StageFits : k1 < k2 => calls[k1].obj < calls[k2].obj
       /\ \A k \in StageFits :
             /\ k < Len(calls)
             /\ calls[k + 1].m = "transform"
             /\ calls[k + 1].obj = calls[k].obj
             /\ calls[k + 1].X = calls[k].X
             /\ IF calls[k].obj = 1 THEN calls[k].X = args.X.cols
                ELSE \E t \in StageTransforms :
                        /\ t < k
                        /\ calls[t].obj = calls[k].obj - 1
                        /\ calls[t].out = calls[k].X
       /\ \A t \in StageTransforms, k \in StageFits \cup EstimatorFitCalls :
             t < k => calls[k].X \subseteq calls[t].out
       /\ \A k \in EstimatorFitCalls :
             /\ k = Len(calls)
             /\ calls[k].X = LastOut
             /\ estimator.trained.cols = LastOut
       /\ op = "fit" => EstimatorFitCalls # {}
       /\ ftOut.outX.cols = LastOut

\* fit on a two-stage pipeline whose first stage drops "income"
C7_Witness ==
    /\ op = "fit" /\ ~ret.raised
    /\ Len(blocks) = 2
    /\ args.X.cols = {"age", "income"}
    /\ \E k \in StageFits : calls[k].obj = 2 /\ calls[k].X = {"age"}
    /\ estimator.trained.cols = {}


---------------------------------------------------------------------------
(* Properties of score (SpecScore) *)

\* the metrics requested, in request order: those given by name, then
\* those given by reference
Requested == args.names \o args.funcs

\* every name of the request is the name of a metric
NamesResolve == \A k \in 1..Len(args.names) : args.names[k] \in Metrics

\* the stages and the estimator have produced the predictions to be scored
Predicted == ret.exc \notin {"StageFailure", "AttributeError"}

\* C5: once the stages and the estimator have produced the predictions, and
\* for a request whose names are names of metrics, score does not raise
\* because a metric fails: the report has one line per requested metric, in
\* request order (names, then references); the line of a metric whose
\* evaluation raises holds "ERROR" and the message, the line of any other
\* metric its value, also for the metrics after a failing one.
C5_MetricsIsolated ==
    (op = "score" /\ Predicted /\ NamesResolve)
    => /\ ~ret.raised
       /\ Len(ret.value.score) = Len(Requested)
       /\ \A k \in 1..Len(Requested) :
             /\ ret.value.score[k].name = Requested[k]
             /\ ret.value.score[k].body =
                   (IF Requested[k] \in args.bad THEN "ERROR: message" ELSE "value")

\* a failing metric followed by one that is evaluated, and one given by reference
C5_Witness ==
    /\ op = "score" /\ ~ret.raised
    /\ Len(args.names) = 2 /\ Len(args.funcs) = 1
    /\ args.names[1] \in args.bad
    /\ args.names[2] \notin args.bad
    /\ ret.value.score[1].body = "ERROR: message"
    /\ ret.value.score[2].body = "value"
    /\ Len(ret.value.score) = 3

===========================================================================
